---- MODULE Spec2Model ----
(***************************************************************************)
(* Model of the evolutionary image approximation filter                    *)
(* (program/shapes_filter.py), its shape classes (program/shapes/), its    *)
(* colour utilities (program/color_utils.py) and the random shape selector *)
(* (program/shape_generator.py).                                           *)
(*                                                                         *)
(* Images are W x H arrays of RGB pixels with the real channel depth       *)
(* 0..255.  Python values are modelled with their dynamic type where the   *)
(* type decides the behaviour: a shape's size is an int or a 1-tuple, a    *)
(* position is a tuple, and an operation Python would reject raises the    *)
(* exception Python raises.                                                *)
(***************************************************************************)
EXTENDS Integers, Sequences, FiniteSets, Bags, TLC

----------------------------------------------------------------------------
(* Bounds of the model *)

\* channel values of input images are k * 255 \div Levels for k \in 0..Levels
Levels == 1

----------------------------------------------------------------------------
(* Program constants *)

ChannelMax == 255
HistoBins == 768
BinsPerChannel == 256
MaxScorePerPixel == 765

----------------------------------------------------------------------------
(* Python helpers *)

PyMin(a, b) == IF b < a THEN b ELSE a
PyMax(a, b) == IF b > a THEN b ELSE a
Abs(a) == IF a < 0 THEN -a ELSE a

RECURSIVE SumOver(_, _, _)
\* sum(f[i] for i in range(lo, hi)), added up by halves of the range
SumOver(f, lo, hi) ==
    IF lo >= hi THEN 0
    ELSE IF hi = lo + 1 THEN f[lo]
    ELSE LET mid == (lo + hi) \div 2
         IN SumOver(f, lo, mid) + SumOver(f, mid, hi)

----------------------------------------------------------------------------
(* Images *)

\* Image.size of every image of the model: (width, height)
ImgSize == <<2, 1>>
ImgW == ImgSize[1]
ImgH == ImgSize[2]
NumPixels == ImgW * ImgH
Pixels == 1..NumPixels
PixelX(p) == (p - 1) % ImgW
PixelY(p) == (p - 1) \div ImgW

LevelValues == {(k * ChannelMax) \div Levels : k \in 0..Levels}
Colours == [1..3 -> LevelValues]
Greys == {c \in Colours : c[1] = c[2] /\ c[2] = c[3]}
Images == [Pixels -> Colours]
\* Image.new('RGB', size, colour)
NewImage(colour) == [p \in Pixels |-> colour]
SolidImages == {NewImage(c) : c \in Colours}

\* a function with every value computed once
Evaluated(f) == f @@ f

\* ImageChops.difference(img1, img2): per pixel, per channel absolute difference
ImageChopsDifference(img1, img2) ==
    Evaluated([p \in Pixels |-> <<Abs(img1[p][1] - img2[p][1]),
                                  Abs(img1[p][2] - img2[p][2]),
                                  Abs(img1[p][3] - img2[p][3])>>])

RECURSIVE HistogramBins(_, _)
\* the bag of the histogram bins the first k channel values of img fall into: the
\* value v of channel c (1 = R, 2 = G, 3 = B) counts in bin (c - 1) * 256 + v
HistogramBins(img, k) ==
    IF k = 0 THEN EmptyBag
    ELSE LET p == ((k - 1) \div 3) + 1
             c == ((k - 1) % 3) + 1
         IN HistogramBins(img, k - 1) (+) SetToBag({(c - 1) * BinsPerChannel + img[p][c]})

\* Image.histogram() of an RGB image: the 256 counts of channel R, then G, then B
Histogram(img) ==
    LET bins == HistogramBins(img, 3 * NumPixels)
    IN [i \in 0..(HistoBins - 1) |-> CopiesIn(i, bins)]

\* the sum of a function of numbers >= 0: its non-zero values form a bag
SumOfTerms(f) ==
    BagCardinality([i \in {j \in DOMAIN f : f[j] > 0} |-> f[i]])

HistoScoreWrongModulus(histo) ==
    SumOfTerms([i \in 0..(HistoBins - 1) |-> histo[i] * (i % ChannelMax)])

\* sum(histo[i] * (i % 256) for i in range(768))
HistoScore(histo) ==
    SumOfTerms([i \in 0..(HistoBins - 1) |-> histo[i] * (i % BinsPerChannel)])

color_difference_score(img1, img2) ==
    HistoScore(Histogram(ImageChopsDifference(img1, img2)))

color_difference_max_score_one_channel(img) == ChannelMax * ImgW * ImgH

color_difference_max_score(img) == MaxScorePerPixel * ImgW * ImgH

\* color_difference_score(img1, img2) / color_difference_max_score(img1): the
\* quotient is kept as the fraction <<numerator, denominator>>
color_difference_score_normalized(a, b) ==
    <<color_difference_score(a, b), color_difference_max_score(a)>>

\* ImageStat.Stat(img, mask).mean raises ZeroDivisionError when the mask selects no
\* pixel; _average_color_image_stats turns it into ValueError
average_color_raises(mask) == mask = {}

\* the mask argument of average_color: None or a mode 1 image, kept as the set of
\* the pixels it selects
NoMask == [given |-> FALSE, pixels |-> {}]
Mask(pixels) == [given |-> TRUE, pixels |-> pixels]
MaskArguments == {NoMask} \cup {Mask(m) : m \in SUBSET Pixels}
\* the pixels ImageStat.Stat(img, mask) counts
Selected(mask_arg) == IF mask_arg.given THEN mask_arg.pixels ELSE Pixels

average_color_ignores_mask(img, mask) ==
    [c \in 1..3 |->
        SumOver([k \in 0..(NumPixels - 1) |-> img[k + 1][c]], 0, NumPixels)
            \div NumPixels]

\* (int(r), int(g), int(b)) of the channel means over the pixels of the mask
average_color(img, mask) ==
    [c \in 1..3 |->
        SumOver([k \in 0..(NumPixels - 1) |-> IF (k + 1) \in mask THEN img[k + 1][c] ELSE 0],
                0, NumPixels) \div Cardinality(mask)]

----------------------------------------------------------------------------
(* Shapes: RegularPolygon and Square.  size_is_tuple records whether the    *)
(* size attribute holds a 1-tuple (size,) or a bare int.                    *)

_min_size == 1
_max_size == 100
_min_sides == 3
_max_sides == 10
_min_rotation == 0
_max_rotation == 359
SquareSides == 4
SizeDelta == 5
SidesDelta == 2
RotationDelta == 10

ShapeClasses == {"RegularPolygon", "Square"}

RegularPolygon(size, size_is_tuple, n_sides, rotation) ==
    [cls |-> "RegularPolygon", size |-> size, size_is_tuple |-> size_is_tuple,
     n_sides |-> n_sides, rotation |-> rotation]

Square(size, size_is_tuple, rotation) ==
    [cls |-> "Square", size |-> size, size_is_tuple |-> size_is_tuple,
     n_sides |-> SquareSides, rotation |-> rotation]

\* The shapes generate_random_shape of class cls returns when random.randint draws
\* the size from sizes, the side count from sides and the rotation from rotations.
\* RegularPolygon passes the size as an int, Square as the tuple (size,).
generate_random_shape(cls, sizes, sides, rotations) ==
    IF cls = "Square"
    THEN {Square(s, TRUE, r) : s \in sizes, r \in rotations}
    ELSE {RegularPolygon(s, FALSE, n, r) : s \in sizes, n \in sides, r \in rotations}

\* RegularPolygon.evolve_shape: line 39 reads RegularPolygon._min_n_sides, an
\* attribute the class does not define (it defines _min_sides), after line 34 added
\* an int to self.size; the call raises for every receiver.
RegularPolygonEvolveRaises(shape) ==
    IF shape.size_is_tuple THEN "TypeError" ELSE "AttributeError"

\* Square.evolve_shape with the deltas random.randint drew
SquareEvolve(shape, dsize, drot) ==
    Square(PyMin(_min_size, PyMax(_max_size, shape.size + dsize)), TRUE,
           PyMin(_min_rotation, PyMax(_max_rotation, shape.rotation + drot)))

\* Square.evolve_shape reads self.size[0]
SquareEvolveRaises(shape) == ~shape.size_is_tuple

----------------------------------------------------------------------------
(* Rasterization.  ImageDraw.regular_polygon fills a polygon inscribed in    *)
(* the bounding circle (position, size[0]); the model fills the pixels       *)
(* strictly inside that circle.                                              *)

\* draw_shape reads shape.size[0], which raises TypeError for an int size
draw_shape_raises(shape) == ~shape.size_is_tuple

ShapeMask(shape, position) ==
    {p \in Pixels :
        (PixelX(p) - position[1]) * (PixelX(p) - position[1])
        + (PixelY(p) - position[2]) * (PixelY(p) - position[2])
        < shape.size * shape.size}

draw_shape(img, shape, position, color) ==
    LET mask == ShapeMask(shape, position)
    IN Evaluated([p \in Pixels |-> IF p \in mask THEN color ELSE img[p]])

\* average_color_img(target): the average colour of the whole image
average_color_img(img) == average_color(img, Pixels)

\* average_color_shape(target, shape, position): the target's average colour
\* under the shape's mask; it fails when the mask selects no pixel
average_color_shape_raises(img, shape, position) ==
    average_color_raises(ShapeMask(shape, position))

average_color_shape(img, shape, position) ==
    average_color(img, ShapeMask(shape, position))

ShapeContainer(shape, position, color) ==
    [shape |-> shape, position |-> position, color |-> color]

\* the score _rank_shapes gives a candidate: it is drawn on a copy of the canvas
CandidateScore(tgt, cnv, sc) ==
    color_difference_score(draw_shape(cnv, sc.shape, sc.position, sc.color), tgt)


----------------------------------------------------------------------------
(* Ranking: list.sort(key=score) is a stable sort.  The ranking is kept as   *)
(* the sequence of the input indices in output order.                        *)

\* the position at which a stable sort inserts a score into sorted scores:
\* after every entry that is not greater
InsertPosUnstable(scores, order, s) ==
    Cardinality({k \in 1..Len(order) : scores[order[k]] < s}) + 1

InsertPos(scores, order, s) ==
    Cardinality({k \in 1..Len(order) : scores[order[k]] <= s}) + 1

InsertAt(seq, pos, e) ==
    [k \in 1..(Len(seq) + 1) |->
        IF k < pos THEN seq[k] ELSE IF k = pos THEN e ELSE seq[k - 1]]

RECURSIVE SortedOrder(_, _)
\* the indices 1..n of scores in the order a stable ascending sort leaves them
SortedOrder(scores, n) ==
    IF n = 0 THEN <<>>
    ELSE LET prev == SortedOrder(scores, n - 1)
         IN InsertAt(prev, InsertPos(scores, prev, scores[n]), n)

\* _rank_shapes raises when drawing a candidate raises
rank_shapes_raises(shapes_in) ==
    \E k \in 1..Len(shapes_in) : draw_shape_raises(shapes_in[k].shape)

RankScores(tgt, cnv, shapes_in) ==
    Evaluated([k \in 1..Len(shapes_in) |-> CandidateScore(tgt, cnv, shapes_in[k])])

\* the input indices in ranked order
rank_order(tgt, cnv, shapes_in) ==
    SortedOrder(RankScores(tgt, cnv, shapes_in), Len(shapes_in))

----------------------------------------------------------------------------
(* Bounds of the filter runs *)

MaxNumShapes == 2
MaxRounds == 2
MaxIterations == 1
\* similarity_threshold is k / ThresholdDen for k \in 0..ThresholdDen
ThresholdDen == 2

\* the values random.randint draws for the shapes of a run: the least of each range
FilterSizes == {_min_size}
FilterSides == {_min_sides}
FilterRotations == {_min_rotation}

Black == [c \in 1..3 |-> 0]
\* the target images of the runs: a black first pixel, the others of one grey
Targets == {[p \in Pixels |-> IF p = 1 THEN Black ELSE g] : g \in Greys}

JitterDelta == 10

----------------------------------------------------------------------------
VARIABLES
    \* approximation_filter attributes
    list_shapes, num_shapes, max_rounds, similarity_threshold, num_iterations,
    num_top_shapes,
    \* run_filter_with_viewer
    target, canvas, shapes, i, shape_container, finish_cause,
    \* _run_round
    n_shapes, ranked_n_shapes, ranked_from, iteration, new_pos,
    \* _run_iteration
    shapes_to_evolve, new_shapes, shape_num, evolved_shape, evolved_position,
    \* control: where the run is, the exception that ended it, the errors logged
    pc, raised, logged,
    \* number of times the canvas was drawn on
    canvas_draws,
    \* colour utility calls
    img1, img2, score_out, cpc, norm_out, mask_in, avg_out, avg_raised,
    \* a shape object, the exception its evolve_shape raised, the calls made on it
    cur_shape, shape_raised, evolve_count,
    \* a random_shape_selector, the target it is used on, the shape tuple it
    \* returned last with the locals of the call, the exception that ended a call
    selector, selector_target, selector_pc, shape_tuple, shape_choice, xy,
    selector_raised, selector_evolves

config == <<list_shapes, num_shapes, max_rounds, similarity_threshold,
            num_iterations, num_top_shapes, target>>
runvars == <<canvas, shapes, i, shape_container, finish_cause, canvas_draws>>
roundvars == <<n_shapes, ranked_n_shapes, ranked_from, iteration, new_pos>>
itervars == <<shapes_to_evolve, new_shapes, shape_num, evolved_shape, evolved_position>>
ctlvars == <<pc, raised, logged>>
fvars == <<config, runvars, roundvars, itervars, ctlvars>>
cvars == <<img1, img2, score_out, cpc, norm_out, mask_in, avg_out, avg_raised>>
svars == <<cur_shape, shape_raised, evolve_count>>
gvars == <<selector, selector_target, selector_pc, shape_tuple, shape_choice, xy,
           selector_raised, selector_evolves>>
vars == <<fvars, cvars, svars, gvars>>

None == "None"
NoFraction == <<0, 0>>
NoColour == <<-1, -1, -1>>
NoShape == [shape |-> None]
NoPosition == [owner |-> 0, xy |-> <<0, 0>>]
\* new_pos before the generation loop of a round binds it
NoNewPos == <<-1, -1>>

ColorIdle ==
    /\ img1 = NewImage(Black)
    /\ img2 = NewImage(Black)
    /\ score_out = -1
    /\ cpc = "idle"
    /\ norm_out = NoFraction
    /\ mask_in = NoMask
    /\ avg_out = NoColour
    /\ avg_raised = None

ShapeIdle ==
    /\ cur_shape = None
    /\ shape_raised = None
    /\ evolve_count = 0

NoSelector == [bbox |-> <<0, 0, 0, 0>>, min_size |-> 0, max_size |-> 0]
NoBox == <<<<0, 0>>, <<0, 0>>>>
NoShapeTuple == [shape |-> None, xy |-> NoBox, color |-> NoColour]

SelectorIdle ==
    /\ selector = NoSelector
    /\ selector_target = <<0, 0>>
    /\ selector_pc = "idle"
    /\ shape_tuple = NoShapeTuple
    /\ shape_choice = None
    /\ xy = NoBox
    /\ selector_raised = None
    /\ selector_evolves = 0

FilterIdle ==
    /\ list_shapes = {}
    /\ num_shapes = 0
    /\ max_rounds = 0
    /\ similarity_threshold = 0
    /\ num_iterations = 0
    /\ num_top_shapes = 0
    /\ target = NewImage(Black)
    /\ canvas = NewImage(Black)
    /\ shapes = <<>>
    /\ i = 0
    /\ shape_container = NoShape
    /\ finish_cause = None
    /\ canvas_draws = 0
    /\ n_shapes = <<>>
    /\ ranked_n_shapes = <<>>
    /\ ranked_from = <<>>
    /\ iteration = 0
    /\ new_pos = NoNewPos
    /\ shapes_to_evolve = <<>>
    /\ new_shapes = <<>>
    /\ shape_num = 0
    /\ evolved_shape = None
    /\ evolved_position = NoPosition
    /\ pc = "idle"
    /\ raised = None
    /\ logged = <<>>

----------------------------------------------------------------------------
(* The filter run: approximation_filter.run_filter_with_viewer *)

\* similarity(target, canvas) >= k / ThresholdDen, compared exactly
SimilarityAtLeast(tgt, cnv, k) ==
    color_difference_score(tgt, cnv) * ThresholdDen >= k * color_difference_max_score(tgt)

LoopConditionIgnoresThreshold(idx, tgt, cnv) ==
    idx < max_rounds

\* (i < self.max_rounds) and (similarity(target, canvas) >= self.similarity_threshold)
LoopCondition(idx, tgt, cnv) ==
    idx < max_rounds /\ SimilarityAtLeast(tgt, cnv, similarity_threshold)

ClearRound ==
    /\ n_shapes' = <<>>
    /\ ranked_n_shapes' = <<>>
    /\ ranked_from' = <<>>
    /\ iteration' = 0

ClearIteration ==
    /\ shapes_to_evolve' = <<>>
    /\ new_shapes' = <<>>
    /\ shape_num' = 0
    /\ evolved_shape' = None
    /\ evolved_position' = NoPosition

\* an exception leaves run_filter_with_viewer: the run is over
Raise(e) ==
    /\ raised' = e
    /\ pc' = "raised"
    /\ ClearRound
    /\ ClearIteration
    /\ UNCHANGED logged

CatchInRoundKeepsPartial(e) ==
    /\ logged' = Append(logged, e)
    /\ iteration' = iteration + 1
    /\ pc' = "iterate"
    /\ n_shapes' = new_shapes
    /\ ClearIteration
    /\ UNCHANGED <<ranked_n_shapes, ranked_from, new_pos, raised>>

\* the except clause of _run_round: the error is logged, n_shapes keeps its value
\* and the for loop goes to its next iteration
CatchInRound(e) ==
    /\ logged' = Append(logged, e)
    /\ iteration' = iteration + 1
    /\ pc' = "iterate"
    /\ ClearIteration
    /\ UNCHANGED <<n_shapes, ranked_n_shapes, ranked_from, new_pos, raised>>

\* approximation_filter.__init__ stores its arguments
Init ==
    /\ list_shapes \in (SUBSET ShapeClasses) \ {{}}
    /\ num_shapes \in 0..MaxNumShapes
    /\ max_rounds \in 0..MaxRounds
    /\ similarity_threshold \in 0..ThresholdDen
    /\ num_iterations \in 0..MaxIterations
    /\ num_top_shapes \in {0, 1, num_shapes}
    /\ target \in Targets
    /\ canvas = NewImage(Black)
    /\ shapes = <<>>
    /\ i = 0
    /\ shape_container = NoShape
    /\ finish_cause = None
    /\ canvas_draws = 0
    /\ n_shapes = <<>>
    /\ ranked_n_shapes = <<>>
    /\ ranked_from = <<>>
    /\ iteration = 0
    /\ new_pos = NoNewPos
    /\ shapes_to_evolve = <<>>
    /\ new_shapes = <<>>
    /\ shape_num = 0
    /\ evolved_shape = None
    /\ evolved_position = NoPosition
    /\ pc = "constructed"
    /\ raised = None
    /\ logged = <<>>
    /\ ColorIdle
    /\ ShapeIdle
    /\ SelectorIdle

\* lines 112-122: the canvas is the solid fill of the target's average colour
RunFilterStart ==
    /\ pc = "constructed"
    /\ canvas' = NewImage(average_color_img(target))
    /\ shapes' = <<>>
    /\ i' = 0
    /\ pc' = "loop"
    /\ UNCHANGED <<config, shape_container, finish_cause, canvas_draws, roundvars,
                   itervars, raised, logged, cvars, svars, gvars>>

\* line 124 true: _run_round is entered with an empty n_shapes
LoopEnter ==
    /\ pc = "loop"
    /\ LoopCondition(i, target, canvas)
    /\ pc' = IF num_shapes > 0 THEN "generate" ELSE "iterate"
    /\ n_shapes' = <<>>
    /\ iteration' = 0
    /\ UNCHANGED <<config, runvars, ranked_n_shapes, ranked_from, new_pos, itervars,
                   raised, logged, cvars, svars, gvars>>

\* line 124 false, lines 140-145
LoopExit ==
    /\ pc = "loop"
    /\ ~LoopCondition(i, target, canvas)
    /\ finish_cause' = IF i = max_rounds THEN "max_rounds" ELSE "similarity"
    /\ pc' = "done"
    /\ UNCHANGED <<config, canvas, shapes, i, shape_container, canvas_draws, roundvars,
                   itervars, raised, logged, cvars, svars, gvars>>

\* lines 162-172, one pass of the for loop
GenerateShape ==
    /\ pc = "generate"
    /\ \E cls \in list_shapes :
       \E new_shape \in generate_random_shape(cls, FilterSizes, FilterSides, FilterRotations) :
       \E x \in 0..ImgW, y \in 0..ImgH :
          /\ new_pos' = <<x, y>>
          /\ IF average_color_shape_raises(target, new_shape, <<x, y>>)
             THEN Raise("ValueError")
             ELSE
               /\ n_shapes' = Append(n_shapes,
                      ShapeContainer(new_shape, <<x, y>>,
                                     average_color_shape(target, new_shape, <<x, y>>)))
               /\ pc' = IF Len(n_shapes) + 1 < num_shapes THEN "generate" ELSE "iterate"
               /\ UNCHANGED <<ranked_n_shapes, ranked_from, iteration, itervars, raised,
                              logged>>
    /\ UNCHANGED <<config, runvars, cvars, svars, gvars>>

RankShapesOnCanvas ==
    /\ pc = "iterate"
    /\ iteration < num_iterations
    /\ IF rank_shapes_raises(n_shapes)
       THEN Raise("TypeError") /\ UNCHANGED canvas
       ELSE LET order == rank_order(target, canvas, n_shapes) IN
            /\ ranked_from' = order
            /\ ranked_n_shapes' = [k \in 1..Len(order) |-> n_shapes[order[k]]]
            /\ canvas' = IF Len(n_shapes) = 0 THEN canvas
                         ELSE draw_shape(canvas, n_shapes[Len(n_shapes)].shape,
                                         n_shapes[Len(n_shapes)].position,
                                         n_shapes[Len(n_shapes)].color)
            /\ pc' = "evolve"
            /\ UNCHANGED <<n_shapes, iteration, itervars, raised, logged>>
    /\ UNCHANGED <<config, shapes, i, shape_container, finish_cause, canvas_draws,
                   new_pos, cvars, svars, gvars>>

\* lines 175-176: _rank_shapes is outside the try block; every candidate is drawn
\* on a copy of the canvas
RankShapes ==
    /\ pc = "iterate"
    /\ iteration < num_iterations
    /\ IF rank_shapes_raises(n_shapes)
       THEN Raise("TypeError")
       ELSE LET order == rank_order(target, canvas, n_shapes) IN
            /\ ranked_from' = order
            /\ ranked_n_shapes' = [k \in 1..Len(order) |-> n_shapes[order[k]]]
            /\ pc' = "evolve"
            /\ UNCHANGED <<n_shapes, iteration, itervars, raised, logged>>
    /\ UNCHANGED <<config, runvars, new_pos, cvars, svars, gvars>>

\* shapes[:self.num_top_shapes]
TopShapes(ranked, k) ==
    SubSeq(ranked, 1, PyMin(k, Len(ranked)))

\* _run_iteration, lines 195-197
RunIterationEnter ==
    /\ pc = "evolve"
    /\ shapes_to_evolve' = TopShapes(ranked_n_shapes, num_top_shapes)
    /\ new_shapes' = <<>>
    /\ shape_num' = 0
    /\ pc' = "evolve_loop"
    /\ UNCHANGED <<config, runvars, roundvars, evolved_shape, evolved_position, raised,
                   logged, cvars, svars, gvars>>

\* _run_iteration, lines 198-203: the parent is chosen and evolved, and
\* evolved_position is bound to the parent's own position object
EvolveShape ==
    /\ pc = "evolve_loop"
    /\ shape_num < num_shapes
    /\ IF Len(shapes_to_evolve) = 0
       THEN CatchInRound("ZeroDivisionError")
       ELSE LET parent_idx == (shape_num % Len(shapes_to_evolve)) + 1
                shape_to_evolve == shapes_to_evolve[parent_idx]
            IN IF shape_to_evolve.shape.cls = "RegularPolygon"
               THEN CatchInRound(RegularPolygonEvolveRaises(shape_to_evolve.shape))
               ELSE IF SquareEvolveRaises(shape_to_evolve.shape)
               THEN CatchInRound("TypeError")
               ELSE \E dsize \in (-SizeDelta)..SizeDelta,
                       drot \in (-RotationDelta)..RotationDelta :
                       /\ evolved_shape' = SquareEvolve(shape_to_evolve.shape, dsize, drot)
                       /\ evolved_position' = [owner |-> parent_idx,
                                               xy |-> shape_to_evolve.position]
                       /\ pc' = "jitter"
                       /\ UNCHANGED <<roundvars, shapes_to_evolve, new_shapes, shape_num,
                                      raised, logged>>
    /\ UNCHANGED <<config, runvars, cvars, svars, gvars>>

\* _run_iteration, line 205: evolved_position[i] += random.randint(-10, 10) stores
\* into a tuple (line 167 builds every position as a tuple), which raises
\* TypeError; lines 206-212 are not reached
JitterPosition ==
    /\ pc = "jitter"
    /\ \E delta \in (-JitterDelta)..JitterDelta : CatchInRound("TypeError")
    /\ UNCHANGED <<config, runvars, cvars, svars, gvars>>

RunIterationReturnSameIteration ==
    /\ pc = "evolve_loop"
    /\ shape_num >= num_shapes
    /\ n_shapes' = new_shapes
    /\ iteration' = iteration
    /\ pc' = "iterate"
    /\ ClearIteration
    /\ UNCHANGED <<config, runvars, ranked_n_shapes, ranked_from, new_pos, raised, logged,
                   cvars, svars, gvars>>

\* _run_iteration, line 198 false and lines 213-214; line 178 assigns n_shapes
RunIterationReturn ==
    /\ pc = "evolve_loop"
    /\ shape_num >= num_shapes
    /\ n_shapes' = new_shapes
    /\ iteration' = iteration + 1
    /\ pc' = "iterate"
    /\ ClearIteration
    /\ UNCHANGED <<config, runvars, ranked_n_shapes, ranked_from, new_pos, raised, logged,
                   cvars, svars, gvars>>

\* _run_round, lines 183-185
RoundReturn ==
    /\ pc = "iterate"
    /\ iteration >= num_iterations
    /\ IF Len(n_shapes) = 0
       THEN /\ Raise("IndexError")
            /\ UNCHANGED <<shape_container, new_pos>>
       ELSE /\ shape_container' = n_shapes[1]
            /\ pc' = "commit"
            /\ UNCHANGED <<roundvars, itervars, raised, logged>>
    /\ UNCHANGED <<config, canvas, shapes, i, finish_cause, canvas_draws, cvars, svars, gvars>>

CommitRoundNoAppend ==
    /\ pc = "commit"
    /\ IF draw_shape_raises(shape_container.shape)
       THEN /\ Raise("TypeError")
            /\ UNCHANGED <<shapes, canvas, canvas_draws, i, new_pos>>
       ELSE /\ canvas' = draw_shape(canvas, shape_container.shape,
                                    shape_container.position, shape_container.color)
            /\ canvas_draws' = canvas_draws + 1
            /\ i' = i + 1
            /\ pc' = "loop"
            /\ ClearRound
            /\ new_pos' = NoNewPos
            /\ UNCHANGED <<shapes, itervars, raised, logged>>
    /\ UNCHANGED <<config, shape_container, finish_cause, cvars, svars, gvars>>

\* run_filter_with_viewer, lines 127-138
CommitRound ==
    /\ pc = "commit"
    /\ shapes' = Append(shapes, shape_container)
    /\ IF draw_shape_raises(shape_container.shape)
       THEN /\ Raise("TypeError")
            /\ UNCHANGED <<canvas, canvas_draws, i, new_pos>>
       ELSE /\ canvas' = draw_shape(canvas, shape_container.shape,
                                    shape_container.position, shape_container.color)
            /\ canvas_draws' = canvas_draws + 1
            /\ i' = i + 1
            /\ pc' = "loop"
            /\ ClearRound
            /\ new_pos' = NoNewPos
            /\ UNCHANGED <<itervars, raised, logged>>
    /\ UNCHANGED <<config, shape_container, finish_cause, cvars, svars, gvars>>

Next ==
    \/ RunFilterStart
    \/ LoopEnter
    \/ LoopExit
    \/ GenerateShape
    \/ RankShapes
    \/ RunIterationEnter
    \/ EvolveShape
    \/ JitterPosition
    \/ RunIterationReturn
    \/ RoundReturn
    \/ CommitRound

Spec == Init /\ [][Next]_vars

----------------------------------------------------------------------------
(* Specification of the colour utilities: the arguments are drawn from the  *)
(* images over LevelValues, the second one solid or equal to the first, and *)
(* the mask of average_color is None or any set of pixels.                  *)

InitColor ==
    /\ img1 \in Images
    /\ img2 \in SolidImages \cup {img1}
    /\ score_out = -1
    /\ cpc = "args"
    /\ norm_out = NoFraction
    /\ mask_in = NoMask
    /\ avg_out = NoColour
    /\ avg_raised = None
    /\ FilterIdle
    /\ ShapeIdle
    /\ SelectorIdle

CallDifferenceScore ==
    /\ cpc = "args"
    /\ score_out' = color_difference_score(img1, img2)
    /\ cpc' = "scored"
    /\ UNCHANGED <<img1, img2, norm_out, mask_in, avg_out, avg_raised, fvars, svars, gvars>>

\* color_difference_score_normalized(img1, img2)
CallDifferenceScoreNormalized ==
    /\ cpc = "args"
    /\ norm_out' = color_difference_score_normalized(img1, img2)
    /\ cpc' = "normalized"
    /\ UNCHANGED <<img1, img2, score_out, mask_in, avg_out, avg_raised, fvars, svars, gvars>>

\* average_color(img1, mask) for a mask argument: None or any mask of img1's size
CallAverageColor ==
    /\ cpc = "args"
    /\ \E m \in MaskArguments :
          /\ mask_in' = m
          /\ IF average_color_raises(Selected(m))
             THEN /\ avg_raised' = "ValueError"
                  /\ UNCHANGED avg_out
             ELSE /\ avg_out' = average_color(img1, Selected(m))
                  /\ UNCHANGED avg_raised
    /\ cpc' = "averaged"
    /\ UNCHANGED <<img1, img2, score_out, norm_out, fvars, svars, gvars>>

NextColor ==
    \/ CallDifferenceScore
    \/ CallDifferenceScoreNormalized
    \/ CallAverageColor

SpecColor == InitColor /\ [][NextColor]_vars

----------------------------------------------------------------------------
(* Specification of the shape classes: a shape comes from                   *)
(* generate_random_shape and evolve_shape is called on it and on its        *)
(* results.                                                                 *)

\* evolve_shape is called at most this many times in a row
MaxEvolves == 2

ShapeSizes == _min_size.._max_size
ShapeSides == _min_sides.._max_sides
ShapeRotations == {_min_rotation, _min_rotation + RotationDelta,
                   _max_rotation - RotationDelta, _max_rotation}

InitShape ==
    /\ \E cls \in ShapeClasses :
          cur_shape \in generate_random_shape(cls, ShapeSizes, ShapeSides, ShapeRotations)
    /\ shape_raised = None
    /\ evolve_count = 0
    /\ FilterIdle
    /\ ColorIdle
    /\ SelectorIdle

\* RegularPolygon.evolve_shape: whatever random.randint drew, the call raises
EvolveRegularPolygon ==
    /\ shape_raised = None
    /\ evolve_count < MaxEvolves
    /\ cur_shape.cls = "RegularPolygon"
    /\ shape_raised' = RegularPolygonEvolveRaises(cur_shape)
    /\ evolve_count' = evolve_count + 1
    /\ UNCHANGED <<cur_shape, fvars, cvars, gvars>>

\* Square.evolve_shape
EvolveSquare ==
    /\ shape_raised = None
    /\ evolve_count < MaxEvolves
    /\ cur_shape.cls = "Square"
    /\ IF SquareEvolveRaises(cur_shape)
       THEN /\ shape_raised' = "TypeError"
            /\ UNCHANGED cur_shape
       ELSE /\ \E dsize \in (-SizeDelta)..SizeDelta, drot \in (-RotationDelta)..RotationDelta :
                  cur_shape' = SquareEvolve(cur_shape, dsize, drot)
            /\ UNCHANGED shape_raised
    /\ evolve_count' = evolve_count + 1
    /\ UNCHANGED <<fvars, cvars, gvars>>

NextShape == EvolveRegularPolygon \/ EvolveSquare

SpecShape == InitShape /\ [][NextShape]_vars

----------------------------------------------------------------------------
(* The random shape selector (program/shape_generator.py).  A shape tuple   *)
(* is (shape, xy, color) with xy = [(x0, y0), (x1, y1)].  The target of a   *)
(* selector is the image of size selector_target whose pixel (x, y) has the *)
(* colour TargetPixel(x, y).                                                *)

\* evolve_shape is called at most this many times on the shapes of a selector
MaxSelectorEvolves == 2
\* random.uniform(-b, b) draws b * t / ScaleSteps for t \in -ScaleSteps..ScaleSteps
ScaleSteps == 1

SelectorArgs(bbox, min_size, max_size) ==
    [bbox |-> bbox, min_size |-> min_size, max_size |-> max_size]

\* the constructor arguments, bbox given as [x0, y0, x1, y1], with the targets the
\* selector is used on
SelectorRuns ==
    {<<SelectorArgs(<<0, 0, 2, 2>>, 1, 2), <<3, 3>>>>,
     <<SelectorArgs(<<0, 0, 12, 12>>, 1, 10), <<3, 3>>>>,
     <<SelectorArgs(<<17, 0, 30, 12>>, 1, 10), <<20, 3>>>>,
     <<SelectorArgs(<<0, 0, 4, 4>>, 1, 3), <<40, 3>>>>,
     <<SelectorArgs(<<1, 1, 24, 24>>, 9, 12), <<20, 20>>>>,
     <<SelectorArgs(<<2, 0, 1, 1>>, 1, 2), <<3, 3>>>>,
     <<SelectorArgs(<<0, 0, 10, 10>>, 2, 2), <<3, 3>>>>,
     <<SelectorArgs(<<0, 0, 10, 10>>, 0, 2), <<3, 3>>>>,
     <<SelectorArgs(<<0, 0, 2, 10>>, 2, 3), <<3, 3>>>>}

TargetPixel(x, y) == <<6 * x, 80 * y, 2 * x + 50 * y>>

\* random_shape_selector.__init__ raises ValueError
selector_init_raises(a) ==
    \/ a.bbox[1] >= a.bbox[3] \/ a.bbox[2] >= a.bbox[4]
    \/ a.min_size >= a.max_size
    \/ a.min_size <= 0
    \/ a.min_size >= a.bbox[3] - a.bbox[1] \/ a.min_size >= a.bbox[4] - a.bbox[2]

\* int(v) of the quotient n / d, d > 0: truncation towards zero
TruncDiv(n, d) == IF n >= 0 THEN n \div d ELSE -((-n) \div d)

\* the quotient n / d as a fraction of positive denominator
Fraction(n, d) == IF d < 0 THEN <<-n, -d>> ELSE <<n, d>>
FractionMin(p, q) == IF q[1] * p[2] < p[1] * q[2] THEN q ELSE p

ShapeTuple(shape_name, box, color) == [shape |-> shape_name, xy |-> box, color |-> color]

BoxOrdered(box) == box[1][1] <= box[2][1] /\ box[1][2] <= box[2][2]

\* the pixels of an image of the given size that ImageDraw.rectangle(xy, 1) sets:
\* both corners belong to the rectangle, and the corners are taken in either order
RectanglePixels(size, box) ==
    {<<x, y>> : x \in PyMax(0, PyMin(box[1][1], box[2][1]))
                        ..PyMin(size[1] - 1, PyMax(box[1][1], box[2][1])),
                y \in PyMax(0, PyMin(box[1][2], box[2][2]))
                        ..PyMin(size[2] - 1, PyMax(box[1][2], box[2][2]))}

\* the pixels ImageDraw.ellipse(xy, 1) sets: the pixels whose centre is within the
\* ellipse inscribed in the pixels of the bounding box, which spans x1 - x0 + 1 by
\* y1 - y0 + 1 pixels; a box with its corners out of order has none
EllipsePixels(size, box) ==
    IF ~BoxOrdered(box) THEN {}
    ELSE LET w == box[2][1] - box[1][1] + 1
             h == box[2][2] - box[1][2] + 1
         IN {q \in RectanglePixels(size, box) :
                (2 * q[1] - box[1][1] - box[2][1]) * (2 * q[1] - box[1][1] - box[2][1]) * h * h
                + (2 * q[2] - box[1][2] - box[2][2]) * (2 * q[2] - box[1][2] - box[2][2]) * w * w
                <= w * w * h * h}

\* _average_color_image_stats(target, mask) for the mask that selects region
_average_color_image_stats(size, region) ==
    [c \in 1..3 |->
        SumOfTerms([q \in region |-> TargetPixel(q[1], q[2])[c]]) \div Cardinality(region)]

\* what a call returns: a colour, False, or the exception it raises
ReturnsColour(c) == [kind |-> "color", color |-> c, exc |-> None]
ReturnsFalse == [kind |-> "False", color |-> NoColour, exc |-> None]
Raises(e) == [kind |-> "raise", color |-> NoColour, exc |-> e]

\* average_color(target, mask) as _get_average_color calls it
AverageOfRegion(size, region) ==
    IF average_color_raises(region) THEN Raises("ValueError: mask")
    ELSE ReturnsColour(_average_color_image_stats(size, region))

\* the Pillow builds a drawing call of this box tells apart: those that check the
\* order of the corners (TRUE) and those that do not
Builds(box) == IF BoxOrdered(box) THEN {TRUE} ELSE BOOLEAN

\* the drawing call of a Pillow build that checks the order of the corners raises
\* ValueError for a box with x1 < x0 or y1 < y0
_get_average_color_without_extrema_check(size, shape_name, box, checked) ==
    IF checked /\ ~BoxOrdered(box) THEN Raises("ValueError: coordinates")
    ELSE IF shape_name = "ellipse"
    THEN AverageOfRegion(size, EllipsePixels(size, box))
    ELSE IF shape_name = "rectangle"
    THEN AverageOfRegion(size, RectanglePixels(size, box))
    ELSE Raises("RuntimeError")

_get_average_color(size, shape_name, box, checked) ==
    IF checked /\ ~BoxOrdered(box) THEN Raises("ValueError: coordinates")
    ELSE IF shape_name = "ellipse"
    THEN LET mask == EllipsePixels(size, box)
         IN IF mask = {} THEN ReturnsFalse ELSE AverageOfRegion(size, mask)
    ELSE IF shape_name = "rectangle"
    THEN AverageOfRegion(size, RectanglePixels(size, box))
    ELSE Raises("RuntimeError")

shape_with_fill_keeps_name(size, shape_name, box, checked) ==
    LET fill == _get_average_color(size, shape_name, box, checked)
        refill == IF fill.kind = "False"
                  THEN _get_average_color(size, "rectangle", box, checked) ELSE fill
    IN [exc |-> refill.exc,
        shape |-> IF refill.kind = "color"
                  THEN ShapeTuple(shape_name, box, refill.color) ELSE NoShapeTuple]

\* lines 159-164 and 220-225: the fill of the shape, the fallback to a rectangle
\* when the fill is False, and the shape tuple returned
shape_with_fill(size, shape_name, box, checked) ==
    LET fill == _get_average_color(size, shape_name, box, checked)
        name == IF fill.kind = "False" THEN "rectangle" ELSE shape_name
        refill == IF fill.kind = "False"
                  THEN _get_average_color(size, "rectangle", box, checked) ELSE fill
    IN [exc |-> refill.exc,
        shape |-> IF refill.kind = "color"
                  THEN ShapeTuple(name, box, refill.color) ELSE NoShapeTuple]

InitSelector ==
    /\ \E run \in SelectorRuns :
          /\ selector = run[1]
          /\ selector_target = run[2]
    /\ selector_pc = "new"
    /\ shape_tuple = NoShapeTuple
    /\ shape_choice = None
    /\ xy = NoBox
    /\ selector_raised = None
    /\ selector_evolves = 0
    /\ FilterIdle
    /\ ColorIdle
    /\ ShapeIdle

\* a call ends with an exception
SelectorRaise(e) ==
    /\ selector_raised' = e
    /\ selector_pc' = "raised"
    /\ UNCHANGED <<shape_tuple, shape_choice, xy>>

\* a call returns the shape tuple of result, or raises what result holds
SelectorReturn(result, choice, box) ==
    IF result.exc # None
    THEN SelectorRaise(result.exc)
    ELSE /\ shape_tuple' = result.shape
         /\ shape_choice' = choice
         /\ xy' = box
         /\ selector_pc' = "shape"
         /\ UNCHANGED selector_raised

\* random_shape_selector.__init__
ConstructSelector ==
    /\ selector_pc = "new"
    /\ IF selector_init_raises(selector)
       THEN SelectorRaise("ValueError: init")
       ELSE /\ selector_pc' = "ready"
            /\ UNCHANGED <<shape_tuple, shape_choice, xy, selector_raised>>
    /\ UNCHANGED <<selector, selector_target, selector_evolves, fvars, cvars, svars>>

\* random_shape_selector.random_shape; random.randrange and random.randint raise
\* ValueError for an empty range
RandomShape ==
    /\ selector_pc = "ready"
    /\ LET x0 == selector.bbox[1]
           y0 == selector.bbox[2]
           x1 == selector.bbox[3]
           y1 == selector.bbox[4]
           width == selector_target[1]
           height == selector_target[2]
           p1xs == (PyMax(0, x0) + selector.min_size)
                       ..(PyMin(x1, width) - selector.min_size - 1)
           p1ys == (PyMax(0, y0) + selector.min_size)
                       ..(PyMin(y1, height) - selector.min_size - 1)
       IN IF p1xs = {} \/ p1ys = {}
          THEN SelectorRaise("ValueError: empty range")
          ELSE \E p1x \in p1xs, p1y \in p1ys, left \in BOOLEAN, below \in BOOLEAN :
               LET p2xs == IF left
                           THEN PyMax(x0, p1x - selector.max_size)..(p1x - selector.min_size)
                           ELSE (p1x + selector.min_size)..PyMin(x1, p1x + selector.max_size)
                   p2ys == IF below
                           THEN PyMax(y0, p1y - selector.max_size)..(p1y - selector.min_size)
                           ELSE (p1y + selector.min_size)..PyMin(y1, p1y + selector.max_size)
               IN IF p2xs = {} \/ p2ys = {}
                  THEN SelectorRaise("ValueError: empty range")
                  ELSE \E p2x \in p2xs, p2y \in p2ys :
                       \E shape_name \in {"ellipse", "rectangle"} :
                          LET box == <<<<PyMin(p1x, p2x), PyMin(p1y, p2y)>>,
                                       <<PyMax(p1x, p2x), PyMax(p1y, p2y)>>>>
                          IN \E checked \in Builds(box) :
                                SelectorReturn(shape_with_fill(selector_target, shape_name,
                                                               box, checked),
                                               shape_name, box)
    /\ UNCHANGED <<selector, selector_target, selector_evolves, fvars, cvars, svars>>

\* random_shape_selector.evolve_shape(target, shape_tuple)
EvolveShapeTuple ==
    /\ selector_pc = "shape"
    /\ selector_evolves < MaxSelectorEvolves
    /\ selector_evolves' = selector_evolves + 1
    /\ LET bx0 == selector.bbox[1]
           by0 == selector.bbox[2]
           bx1 == selector.bbox[3]
           by1 == selector.bbox[4]
           x0 == shape_tuple.xy[1][1]
           y0 == shape_tuple.xy[1][2]
           x1 == shape_tuple.xy[2][1]
           y1 == shape_tuple.xy[2][2]
           shape_width == x1 - x0
           shape_height == y1 - y0
           x_variation_bound == selector_target[1] \div 20
           y_variation_bound == selector_target[2] \div 20
       IN IF shape_width = 0 \/ shape_height = 0
          THEN SelectorRaise("ZeroDivisionError")
          ELSE LET scale_variation_bound ==
                       FractionMin(
                           FractionMin(Fraction(selector.max_size - shape_width, shape_width),
                                       <<1, 5>>),
                           FractionMin(Fraction(selector.max_size - shape_height, shape_height),
                                       <<1, 5>>))
               IN \E x_var \in (-x_variation_bound)..x_variation_bound,
                     y_var \in (-y_variation_bound)..y_variation_bound,
                     t \in (-ScaleSteps)..ScaleSteps :
                     LET scale_x_var == TruncDiv(shape_width * t * scale_variation_bound[1],
                                                 2 * ScaleSteps * scale_variation_bound[2])
                         scale_y_var == TruncDiv(shape_height * t * scale_variation_bound[1],
                                                 2 * ScaleSteps * scale_variation_bound[2])
                         new_xy ==
                           <<<<PyMin(PyMax(bx0, x0 + x_var - scale_x_var), selector_target[1] - 1),
                               PyMin(PyMax(by0, y0 + y_var - scale_y_var), selector_target[2] - 1)>>,
                             <<PyMax(PyMin(bx1, x1 + x_var + scale_x_var), 0),
                               PyMax(PyMin(by1, y1 + y_var + scale_y_var), 0)>>>>
                     IN \E checked \in Builds(new_xy) :
                           SelectorReturn(shape_with_fill(selector_target, shape_tuple.shape,
                                                          new_xy, checked),
                                          shape_tuple.shape, new_xy)
    /\ UNCHANGED <<selector, selector_target, fvars, cvars, svars>>

NextSelector ==
    \/ ConstructSelector
    \/ RandomShape
    \/ EvolveShapeTuple

SpecSelector == InitSelector /\ [][NextSelector]_vars

----------------------------------------------------------------------------
(* average_color together with its callers in the shape selector: a run is   *)
(* a run of the colour utilities or a run of a selector.                     *)

InitAverageCallers == InitColor \/ InitSelector

NextAverageCallers == NextColor \/ NextSelector

SpecAverageCallers == InitAverageCallers /\ [][NextAverageCallers]_vars

----------------------------------------------------------------------------
(* Properties *)

\* the stopping test of the round loop, from the scores
ScoreAllowsRound ==
    color_difference_score(target, canvas) * ThresholdDen
        >= similarity_threshold * color_difference_max_score(target)

RoundPcs == {"generate", "iterate", "evolve", "evolve_loop", "jitter", "commit"}

\* the rounds started so far: the completed ones and the one in progress
RoundsStarted == i + (IF pc \in RoundPcs THEN 1 ELSE 0)

\* C1: a round is started only at a loop check where round_index < max_rounds and
\* the normalized score of the canvas is at least similarity_threshold; at a check
\* where either fails the loop exits; the rounds of a run never exceed max_rounds.
C1_RoundsOnlyWithinBudgetAboveThreshold ==
    /\ [](RoundsStarted <= max_rounds)
    /\ [][/\ (pc = "loop" /\ pc' \in RoundPcs) => (i < max_rounds /\ ScoreAllowsRound)
          /\ (pc = "loop" /\ ~(i < max_rounds /\ ScoreAllowsRound)) => pc' = "done"]_vars

\* a run that did rounds and stopped on the threshold before its budget was used
C1_Witness ==
    pc = "done" /\ i > 0 /\ i < max_rounds /\ ~ScoreAllowsRound

RECURSIVE Rendered(_, _, _)
\* the base image with the first n placements of seq drawn on it in order
Rendered(base, seq, n) ==
    IF n = 0 THEN base
    ELSE draw_shape(Rendered(base, seq, n - 1), seq[n].shape, seq[n].position, seq[n].color)

BaseCanvas == NewImage(average_color_img(target))

\* C2: at every round boundary the canvas is the solid fill of the target's average
\* colour with the accumulated shapes drawn on it in commit order, the canvas was
\* drawn on once per completed round and the shape sequence has one entry per
\* completed round.
C2_CanvasIsBasePlusCommittedShapes ==
    pc \in {"loop", "done"} =>
        /\ Len(shapes) = i
        /\ canvas_draws = i
        /\ canvas = Rendered(BaseCanvas, shapes, Len(shapes))

\* two rounds were committed, with different shapes, and changed the canvas
C2_Witness ==
    /\ pc = "loop"
    /\ i = 2
    /\ shapes[1] # shapes[2]
    /\ canvas # BaseCanvas

\* the configurations the documentation of approximation_filter allows
ValidConfiguration ==
    /\ num_shapes > 0
    /\ max_rounds > 0
    /\ 0 < similarity_threshold /\ similarity_threshold <= ThresholdDen
    /\ num_iterations > 0
    /\ 1 <= num_top_shapes /\ num_top_shapes <= num_shapes

\* C3: the placement a round returns is a member of the round's final population
\* whose difference score on a copy of the canvas is minimal in that population
\* (stated for the valid configurations).
C3_RoundReturnsBestOfFinalPopulation ==
    (ValidConfiguration /\ pc = "commit") =>
        /\ \E k \in 1..Len(n_shapes) : n_shapes[k] = shape_container
        /\ \A k \in 1..Len(n_shapes) :
              CandidateScore(target, canvas, shape_container)
                  <= CandidateScore(target, canvas, n_shapes[k])

\* C4: the ranking is a permutation of its input, ascending by the score of the
\* canvas copy with the candidate drawn, and stable: of two candidates of equal
\* score the one earlier in the input is earlier in the output.
C4_RankingIsStableAscendingPermutation ==
    pc = "evolve" =>
        LET n == Len(n_shapes)
            score(k) == CandidateScore(target, canvas, ranked_n_shapes[k])
        IN /\ Len(ranked_n_shapes) = n
           /\ Len(ranked_from) = n
           /\ {ranked_from[k] : k \in 1..n} = 1..n
           /\ \A k \in 1..n : ranked_n_shapes[k] = n_shapes[ranked_from[k]]
           /\ \A k, l \in 1..n :
                 k < l => /\ score(k) <= score(l)
                          /\ score(k) = score(l) => ranked_from[k] < ranked_from[l]

\* two different candidates of equal score were ranked
C4_Witness ==
    /\ pc = "evolve"
    /\ Len(n_shapes) = 2
    /\ n_shapes[1] # n_shapes[2]
    /\ CandidateScore(target, canvas, n_shapes[1]) = CandidateScore(target, canvas, n_shapes[2])

\* child is one mutation step of parent
IsMutationOf(child, parent) ==
    /\ parent.shape.cls = "Square"
    /\ \E dsize \in (-SizeDelta)..SizeDelta, drot \in (-RotationDelta)..RotationDelta :
          child.shape = SquareEvolve(parent.shape, dsize, drot)

\* C5: given a ranked list, _run_iteration produces the next generation: exactly
\* num_shapes candidates, candidate k one mutation step of survivor k mod
\* num_top_shapes, the survivors being the first num_top_shapes ranked entries
\* (stated for the valid configurations).
C5_NextGenerationCyclesThroughSurvivors ==
    [][(/\ pc \in {"evolve_loop", "jitter"}
        /\ pc' = "iterate"
        /\ ValidConfiguration
        /\ num_top_shapes <= Len(ranked_n_shapes))
       => /\ logged' = logged
          /\ Len(n_shapes') = num_shapes
          /\ \A k \in 1..num_shapes :
                IsMutationOf(n_shapes'[k], ranked_n_shapes[((k - 1) % num_top_shapes) + 1])]_vars

\* the errors that drawing, scoring or mutating one candidate raises
CandidateErrors == {"TypeError", "AttributeError"}

\* C6: an error raised while scoring or mutating a candidate is logged and
\* contained in the round; it never leaves _run_round or the filter run (stated
\* for the valid configurations).
C6_CandidateErrorsNeverAbortRun ==
    ValidConfiguration => raised \notin CandidateErrors

\* C7: no filter object exists with an invalid configuration: construction lets
\* through only num_shapes > 0, max_rounds > 0, 0 < similarity_threshold <= 1,
\* num_iterations > 0 and 1 <= num_top_shapes <= num_shapes.
C7_ConstructedFilterIsValid ==
    pc # "idle" => ValidConfiguration

ShapeInBounds(shape) ==
    /\ _min_size <= shape.size /\ shape.size <= _max_size
    /\ _min_rotation <= shape.rotation /\ shape.rotation <= _max_rotation
    /\ IF shape.cls = "Square"
       THEN shape.n_sides = SquareSides
       ELSE _min_sides <= shape.n_sides /\ shape.n_sides <= _max_sides

\* C9: every shape reached from generate_random_shape by evolve_shape calls is
\* within the size, rotation and side count bounds of its class, and evolve_shape
\* never fails.
C9_EvolvedShapesStayInBoundsWithoutFailure ==
    /\ shape_raised = None
    /\ ShapeInBounds(cur_shape)

\* the sum over all pixels and the 3 channels of |A[p, c] - B[p, c]|
AbsoluteDifferenceSum(a, b) ==
    SumOver([k \in 0..(3 * NumPixels - 1) |->
                Abs(a[(k \div 3) + 1][(k % 3) + 1] - b[(k \div 3) + 1][(k % 3) + 1])],
            0, 3 * NumPixels)

IsSolid(img) == \A p \in Pixels : img[p] = img[1]

\* C10: color_difference_score is the sum over all pixels and channels of the
\* absolute channel differences: an integer >= 0, 0 exactly for identical images,
\* and for two solid images the sum of the absolute channel deltas times W * H.
C10_DifferenceScoreIsAbsoluteSum ==
    cpc = "scored" =>
        /\ score_out = AbsoluteDifferenceSum(img1, img2)
        /\ score_out >= 0
        /\ (score_out = 0) <=> (img1 = img2)
        /\ (IsSolid(img1) /\ IsSolid(img2)) =>
              score_out = (Abs(img1[1][1] - img2[1][1]) + Abs(img1[1][2] - img2[1][2])
                           + Abs(img1[1][3] - img2[1][3])) * ImgW * ImgH

\* a non-solid image scored against a different, solid one
C10_Witness ==
    /\ cpc = "scored"
    /\ ~IsSolid(img1)
    /\ IsSolid(img2)
    /\ score_out > 0

\* every channel of every pixel is 0 in one image and 255 in the other
MaximallyOpposite(a, b) ==
    \A p \in Pixels : \A c \in 1..3 : Abs(a[p][c] - b[p][c]) = ChannelMax

\* C11: the maximum score of a W x H image is 765 * W * H, and the normalized score
\* of two images is the difference score over that maximum: a quotient in [0, 1],
\* 0 for identical images and 1 only for maximally opposite images.
C11_NormalizedScoreInUnitInterval ==
    cpc = "normalized" =>
        /\ color_difference_max_score(img1) = 765 * ImgW * ImgH
        /\ norm_out[2] = 765 * ImgW * ImgH
        /\ norm_out[1] = AbsoluteDifferenceSum(img1, img2)
        /\ 0 <= norm_out[1] /\ norm_out[1] <= norm_out[2]
        /\ (img1 = img2) => norm_out[1] = 0
        /\ (norm_out[1] = norm_out[2]) => MaximallyOpposite(img1, img2)

\* two maximally opposite images were scored: the quotient is 1
C11_Witness ==
    /\ cpc = "normalized"
    /\ norm_out[1] = norm_out[2]
    /\ MaximallyOpposite(img1, img2)

RECURSIVE ChannelSum(_, _, _)
\* the sum of channel c of img over the pixels of the set region
ChannelSum(img, region, c) ==
    IF region = {} THEN 0
    ELSE LET p == CHOOSE q \in region : TRUE
         IN img[p][c] + ChannelSum(img, region \ {p}, c)

\* C12: average_color returns per channel the mean, truncated to an integer, over
\* all pixels (no mask) or over exactly the pixels the mask selects; for a region
\* of one colour it returns that colour, and the pixels outside the mask never
\* influence the result.
C12_AverageIsTruncatedMeanOverMask ==
    (cpc = "averaged" /\ avg_raised = None) =>
        LET region == IF mask_in.given THEN mask_in.pixels ELSE Pixels
            n == Cardinality(region)
        IN /\ n > 0
           /\ \A c \in 1..3 :
                 /\ avg_out[c] * n <= ChannelSum(img1, region, c)
                 /\ ChannelSum(img1, region, c) < (avg_out[c] + 1) * n
           /\ \A k \in Colours : (\A p \in region : img1[p] = k) => avg_out = k
           /\ \A outside \in [Pixels \ region -> Colours] :
                 average_color([p \in Pixels |-> IF p \in region THEN img1[p]
                                                 ELSE outside[p]], region) = avg_out

\* a mask selected a proper part of an image of two colours, and a mean was truncated
C12_Witness ==
    /\ cpc = "averaged"
    /\ avg_raised = None
    /\ mask_in.given
    /\ mask_in.pixels # Pixels
    /\ ~IsSolid(img1)
    /\ \E m \in MaskArguments : \E c \in 1..3 :
          /\ ~average_color_raises(Selected(m))
          /\ average_color(img1, Selected(m))[c] * Cardinality(Selected(m))
                 # ChannelSum(img1, Selected(m), c)

C14_DegenerateEllipseBecomesRectangle ==
    selector_pc = "shape" =>
        LET ellipse == EllipsePixels(selector_target, xy)
            rectangle == RectanglePixels(selector_target, xy)
        IN /\ shape_tuple.xy = xy
           /\ (shape_choice = "ellipse" /\ ellipse = {}) =>
                 /\ shape_tuple.shape = "rectangle"
                 /\ rectangle # {}
                 /\ shape_tuple.color = _average_color_image_stats(selector_target, rectangle)
           /\ shape_tuple.shape = "ellipse" => (shape_choice = "ellipse" /\ ellipse # {})
           /\ (shape_choice = "ellipse" /\ ellipse # {}) =>
                 /\ shape_tuple.shape = "ellipse"
                 /\ shape_tuple.color = _average_color_image_stats(selector_target, ellipse)
           /\ shape_choice = "rectangle" => shape_tuple.shape = "rectangle"

\* evolve_shape turned an ellipse into one without pixels in the target and
\* returned a rectangle
C14_Witness ==
    /\ selector_pc = "shape"
    /\ selector_evolves > 0
    /\ BoxOrdered(xy)
    /\ shape_choice = "ellipse"
    /\ shape_tuple.shape = "rectangle"
    /\ EllipsePixels(selector_target, xy) = {}

\* the box lies in the bounding region of the selector
InsideRegion(box) ==
    /\ selector.bbox[1] <= box[1][1] /\ box[2][1] <= selector.bbox[3]
    /\ selector.bbox[2] <= box[1][2] /\ box[2][2] <= selector.bbox[4]

\* both side lengths of the box are in [min_size, max_size]
SidesInRange(box) ==
    /\ selector.min_size <= box[2][1] - box[1][1]
    /\ box[2][1] - box[1][1] <= selector.max_size
    /\ selector.min_size <= box[2][2] - box[1][2]
    /\ box[2][2] - box[1][2] <= selector.max_size

\* C15: for every selector the constructor accepts and every target, random_shape
\* succeeds and returns a box with its top-left corner first (sx0 < sx1, sy0 < sy1)
\* that lies inside the bounding region and has both sides in [min_size, max_size].
C15_RandomShapeSucceedsInsideRegion ==
    (selector_pc \in {"shape", "raised"} /\ selector_evolves = 0
        /\ ~selector_init_raises(selector)) =>
        /\ selector_pc = "shape"
        /\ shape_tuple.xy[1][1] < shape_tuple.xy[2][1]
        /\ shape_tuple.xy[1][2] < shape_tuple.xy[2][2]
        /\ InsideRegion(shape_tuple.xy)
        /\ SidesInRange(shape_tuple.xy)

\* ordered corners, inside the bounding region, at least one pixel in the target,
\* sides in range
BoxWellFormed(box) ==
    /\ BoxOrdered(box)
    /\ InsideRegion(box)
    /\ RectanglePixels(selector_target, box) # {}
    /\ SidesInRange(box)

\* C19: evolve_shape of a shape tuple whose box has ordered corners, lies in the
\* bounding region and has sides in [min_size, max_size] returns a box with ordered
\* corners, inside the bounding region, with a pixel in the target and sides in
\* [min_size, max_size]; so it is after any number of mutations.
C19_EvolvedBoxStaysWellFormed ==
    [][(/\ selector_pc = "shape"
        /\ selector_evolves' = selector_evolves + 1
        /\ BoxWellFormed(shape_tuple.xy))
       => (selector_pc' = "shape" /\ BoxWellFormed(shape_tuple'.xy))]_vars

\* C16: the cause reported at the end of a run is the cause of the exit: the round
\* budget is reported only when round_index reached max_rounds with the normalized
\* score still at or above the threshold, and the threshold is reported whenever
\* the score fell below it, also in the round that made round_index equal
\* max_rounds (stated for the valid configurations).
C16_ReportedCauseIsActualCause ==
    (ValidConfiguration /\ pc = "done") =>
        /\ finish_cause = "max_rounds" => (i = max_rounds /\ ScoreAllowsRound)
        /\ ~ScoreAllowsRound => finish_cause = "similarity"

IterationPcs == {"iterate", "evolve", "evolve_loop", "jitter"}

\* C17: every round performs exactly num_iterations iterations, each a ranking
\* followed by an evolution step, whatever the scores and whether or not an
\* iteration failed: the iterations of a round end only with the round returning
\* its shape after num_iterations of them (stated for the valid configurations).
C17_ExactlyNumIterationsPerRound ==
    [][ValidConfiguration =>
          /\ (pc \in IterationPcs /\ pc' \notin IterationPcs) =>
                (pc' = "commit" /\ iteration = num_iterations)
          /\ iteration' <= num_iterations
          /\ iteration' = iteration + 1 => pc \in {"evolve_loop", "jitter"}
          /\ pc' = "evolve" => pc = "iterate"
          /\ (pc' = "evolve_loop" /\ pc # "evolve_loop") => pc = "evolve"]_vars

\* C18: within a round the canvas is read only: ranking and mutation leave it as it
\* was at the start of the round, and it changes only when the filter commits the
\* shape the round returned, by drawing that one shape.
C18_CanvasChangesOnlyAtCommit ==
    [][/\ canvas' # canvas =>
             \/ pc = "constructed"
             \/ /\ pc = "commit"
                /\ shapes' = Append(shapes, shape_container)
                /\ canvas' = draw_shape(canvas, shape_container.shape,
                                        shape_container.position, shape_container.color)
       /\ canvas_draws' # canvas_draws => pc = "commit"
       /\ pc' \in RoundPcs => canvas' = canvas]_vars

\* candidates were ranked in a second round, and drawing one of them on the canvas
\* itself would have changed it
C18_Witness ==
    /\ pc = "evolve"
    /\ i = 1
    /\ \E k \in 1..Len(n_shapes) :
          draw_shape(canvas, n_shapes[k].shape, n_shapes[k].position, n_shapes[k].color)
              # canvas

Clamp(value, low, high) == PyMin(high, PyMax(low, value))

\* C20: evolve_shape perturbs and then clamps: every parameter of the result is
\* min(max, max(min, old + delta)) for a delta within the bound of the parameter
\* (size 5, rotation 10, side count 2), and the size of the result is a 1-tuple as
\* in a generated shape.
C20_MutationIsPerturbThenClamp ==
    [][evolve_count' = evolve_count + 1 =>
          /\ shape_raised' = None
          /\ cur_shape'.cls = cur_shape.cls
          /\ cur_shape'.size_is_tuple
          /\ \E dsize \in (-SizeDelta)..SizeDelta :
                cur_shape'.size = Clamp(cur_shape.size + dsize, _min_size, _max_size)
          /\ \E drot \in (-RotationDelta)..RotationDelta :
                cur_shape'.rotation
                    = Clamp(cur_shape.rotation + drot, _min_rotation, _max_rotation)
          /\ IF cur_shape.cls = "Square"
             THEN cur_shape'.n_sides = SquareSides
             ELSE \E dsides \in (-SidesDelta)..SidesDelta :
                     cur_shape'.n_sides
                         = Clamp(cur_shape.n_sides + dsides, _min_sides, _max_sides)]_vars

\* a position on the canvas: 0 <= x < width and 0 <= y < height
InCanvas(position) ==
    /\ 0 <= position[1] /\ position[1] < ImgW
    /\ 0 <= position[2] /\ position[2] < ImgH

\* C21: every position generated at the start of a round, and the position of
\* every candidate of the population and of the next generation, lies within
\* the canvas: 0 <= x < width and 0 <= y < height.
C21_PositionsWithinCanvas ==
    /\ new_pos # NoNewPos => InCanvas(new_pos)
    /\ \A k \in DOMAIN n_shapes : InCanvas(n_shapes[k].position)
    /\ \A k \in DOMAIN new_shapes : InCanvas(new_shapes[k].position)

\* the call of run_filter_with_viewer is over: it returned or an exception left it
Terminated == pc \in {"done", "raised"}

\* the most steps one iteration takes: the ranking, the entry of _run_iteration,
\* for each of the num_shapes children its evolution and its jitter, the return
IterationSteps == 3 + 2 * num_shapes
\* the most steps one round takes: the loop test, num_shapes generations,
\* num_iterations iterations, the return of the round and its commit
RoundSteps == 3 + num_shapes + num_iterations * IterationSteps
\* the most steps a run takes: its start, max_rounds rounds, the last loop test
RunSteps == 2 + max_rounds * RoundSteps

\* the most steps that remain after the round in progress
StepsAfterRound == (max_rounds - i - 1) * RoundSteps + 1

\* the most steps that remain before the run is over
StepsLeft ==
    CASE pc = "constructed" -> RunSteps
      [] pc = "loop" -> (max_rounds - i) * RoundSteps + 1
      [] pc = "generate" -> (num_shapes - Len(n_shapes)) + num_iterations * IterationSteps
                            + 2 + StepsAfterRound
      [] pc = "iterate" -> (num_iterations - iteration) * IterationSteps + 2 + StepsAfterRound
      [] pc = "evolve" -> (num_iterations - iteration) * IterationSteps + 1 + StepsAfterRound
      [] pc = "evolve_loop" -> (num_iterations - iteration - 1) * IterationSteps
                               + 2 * (num_shapes - shape_num) + 3 + StepsAfterRound
      [] pc = "jitter" -> (num_iterations - iteration - 1) * IterationSteps
                          + 2 * (num_shapes - shape_num) + 2 + StepsAfterRound
      [] pc = "commit" -> 1 + StepsAfterRound
      [] OTHER -> 0

\* C22: a filter run always terminates, whatever the random choices and also
\* when the score never drops below the threshold: every step of the run lowers
\* the number of steps that can remain, which starts at the bound RunSteps (a
\* bounded number of steps for each of at most max_rounds rounds) and never
\* goes below 0, and no round starts beyond max_rounds.
C22_RunTerminatesWithinMaxRounds ==
    [][/\ StepsLeft' < StepsLeft
       /\ StepsLeft' >= 0
       /\ StepsLeft <= RunSteps
       /\ RoundsStarted' <= max_rounds
       /\ (StepsLeft' = 0) = Terminated']_vars

\* a run that used its whole budget of two rounds with the score still at or
\* above the threshold, and returned
C22_Witness ==
    /\ pc = "done"
    /\ max_rounds >= 2
    /\ i = max_rounds
    /\ Len(shapes) = max_rounds
    /\ SimilarityAtLeast(target, canvas, similarity_threshold)

====
